---- MODULE Spec2Model ----
(***************************************************************************)
(* Routing core of the AI orchestration service                            *)
(* (src/src/services/aiOrchestrator.js): TaskRouter, the threshold table   *)
(* of AIOrchestrationService, processTask with its document short-circuit, *)
(* its fallback and its metrics record, the chat-mode dispatch of          *)
(* _processChatRequest and updateThresholds; the text extraction of the    *)
(* analysis layer; the chat session persisted through the Drive service    *)
(* (src/src/services/chatSession.js).                                      *)
(*                                                                         *)
(* Every `await` of the code is a suspension point: a call is cut into the *)
(* steps between its awaits, and the steps of different calls interleave.  *)
(* The code between two awaits runs to completion (one JavaScript thread). *)
(***************************************************************************)
EXTENDS Integers, Sequences, FiniteSets

\* ------------------------------------------------------------ bounds

\* Number of call slots: calls of processTask / chat requests in flight at once.
\* A slot is reused when its call has returned, so one slot already gives every
\* sequence of calls, interleaved with updateThresholds at every suspension.
MaxCalls == 1

\* Complexity scores the analyzer returns for the tasks submitted to the
\* concurrent specification: 25 lies between the simple boundaries 10, 20 and
\* 30, 70 between the medium boundaries 60 and 75.
Scores == {25, 70}

\* The tasks of the concurrent specification, by score and stepwise flag (the
\* router does not read the score of a task that asks for stepwise reasoning).
TaskInputs == {<<25, FALSE>>, <<70, FALSE>>, <<70, TRUE>>}

\* Every integer score, for the statements about the pure dispatch function.
AllScores == 0..100

Fields == {"simple", "medium", "complex"}

\* Values a caller of updateThresholds supplies, per field.
UpdateValues == [simple |-> {10, 20}, medium |-> {75}, complex |-> {}]

\* context.priority: "none" stands for an absent or any other value.
Priorities == {"high", "low", "none"}

Calls == 1..MaxCalls

\* Number of processChatMessage calls of one run of the session store.
MaxChats == 2

\* ------------------------------------------------------------ constants of the code

DefaultThresholds == [simple |-> 30, medium |-> 60, complex |-> 85]

HighPriorityShift == 10

LowPriorityShift == 15

\* A property the object does not have (task.complexity before the stamp).
Undefined == -1

\* ClaudeHandler.processTask: task.complexity || 50
DefaultClaudeComplexity == 50

\* ClaudeHandler.selectModel: the boundaries of opus and sonnet.
OpusAbove == 75

SonnetAbove == 50

NoAnalysis == [complexity |-> -1, requiresStepwise |-> FALSE, none |-> TRUE]

NoSelection == [method |-> "none", model |-> "none"]

NoError == [message |-> <<>>]

NoResult == [method |-> "none", invocation |-> 0]

FlashMethod == "gemini.processSimpleTask"

\* ------------------------------------------------------------ state

VARIABLES
    thresholds,        \* AIOrchestrationService.thresholds, the base table
    routerThresholds,  \* TaskRouter.thresholds
    call,              \* the calls in flight, per slot
    lastSupplied,      \* per field, the value the latest updateThresholds call
                       \* that named the field supplied for it (0: none yet)
    drive,             \* the files of the Drive folder of the chats, by file id
    chat,              \* the processChatMessage call in flight and its ChatSession
    appended,          \* the addMessage calls so far, in order: session id, message
    probe              \* the task under analysis and the outcome of analyzeTask

routingVars == <<thresholds, routerThresholds, call, lastSupplied>>

sessionVars == <<drive, chat, appended>>

vars == <<thresholds, routerThresholds, call, lastSupplied, drive, chat, appended, probe>>

Idle == [pc |-> "idle", kind |-> "none", priority |-> "none",
         score |-> 0, stepwise |-> FALSE,
         analysis |-> NoAnalysis, selected |-> NoSelection,
         invoked |-> <<>>, args |-> <<>>, settled |-> <<>>,
         modelUsed |-> "null", result |-> NoResult,
         error |-> NoError, updatedSinceStart |-> FALSE,
         action |-> "none", docValid |-> FALSE, analyzable |-> TRUE,
         shape |-> "object",
         requiresReasoning |-> FALSE,
         history |-> "absent", chatHistory |-> "absent",
         taskComplexity |-> Undefined,
         apiModel |-> <<>>, trace |-> <<>>, metrics |-> <<>>]

\* The (task, context) pair a call holds and hands to the providers: the task
\* is known by what the analyzer finds in it, the context by its priority.
CallArgs(cr) ==
    [task |-> [score |-> cr.score, stepwise |-> cr.stepwise],
     context |-> [priority |-> cr.priority]]

\* ------------------------------------------------------------ TaskAnalyzer

\* analyzeTask: the analysis of a task whose text scores `score` and whose
\* reasoning analysis says `stepwise`.
AnalyzeTask(score, stepwise) ==
    [complexity |-> score, requiresStepwise |-> stepwise, none |-> FALSE]

\* ------------------------------------------------------------ TaskRouter

\* Variant: the boundaries compared with < instead of <=.
RouteByComplexityStrict(complexity, th) ==
    IF complexity < th.simple
    THEN [method |-> "gemini.processSimpleTask", model |-> "gemini-flash"]
    ELSE IF complexity < th.medium
    THEN [method |-> "gemini.processTask", model |-> "gemini-pro"]
    ELSE IF complexity < th.complex
    THEN [method |-> "claude.processTask", model |-> "claude-sonnet"]
    ELSE [method |-> "claude.processComplexTask", model |-> "claude-opus"]

\* routeByComplexity: the provider method invoked and the model label returned.
RouteByComplexity(complexity, th) ==
    IF complexity <= th.simple
    THEN [method |-> "gemini.processSimpleTask", model |-> "gemini-flash"]
    ELSE IF complexity <= th.medium
    THEN [method |-> "gemini.processTask", model |-> "gemini-pro"]
    ELSE IF complexity <= th.complex
    THEN [method |-> "claude.processTask", model |-> "claude-sonnet"]
    ELSE [method |-> "claude.processComplexTask", model |-> "claude-opus"]

\* Variant: the cheapest tier tested before the stepwise flag.
RouteTaskComplexityFirst(analysis, th) ==
    IF analysis.requiresStepwise /\ analysis.complexity > th.simple
    THEN [method |-> "deepseek.processReasoningTask", model |-> "deepseek-r1"]
    ELSE RouteByComplexity(analysis.complexity, th)

\* routeTask
RouteTask(analysis, th) ==
    IF analysis.requiresStepwise
    THEN [method |-> "deepseek.processReasoningTask", model |-> "deepseek-r1"]
    ELSE RouteByComplexity(analysis.complexity, th)

\* The response of the n-th provider invocation of a call.
ProviderResponse(method, n) == [method |-> method, invocation |-> n]

\* The provider error of the n-th invocation of a call.
ProviderError(method, n) == [message |-> <<method, n>>]

\* The catch block of routeWithFallback: what it does with the primary error.
\* Variant: no fallback when the failed primary call was the cheapest tier.
RouteWithFallbackCatchSkipFlash(primary) ==
    IF primary.method = FlashMethod
    THEN [rethrow |-> TRUE, method |-> "none", model |-> "none",
          passesTask |-> FALSE, passesContext |-> FALSE]
    ELSE [rethrow |-> FALSE, method |-> FlashMethod, model |-> "gemini-flash-fallback",
          passesTask |-> TRUE, passesContext |-> TRUE]

\* routeWithFallback, catch block
RouteWithFallbackCatch(primary) ==
    [rethrow |-> FALSE, method |-> FlashMethod, model |-> "gemini-flash-fallback",
     passesTask |-> TRUE, passesContext |-> TRUE]

\* ------------------------------------------------------------ provider handlers

\* ClaudeHandler.selectModel
SelectModel(complexity) ==
    IF complexity > OpusAbove THEN "claude-3-opus-20240229"
    ELSE IF complexity > SonnetAbove THEN "claude-3-sonnet-20240229"
    ELSE "claude-3-haiku-20240307"

\* The model a provider method sends the task to, for a task whose complexity
\* property is `taskComplexity` (0 and an absent property are both falsy in
\* `task.complexity || 50`).
ProviderModel(method, taskComplexity) ==
    CASE method = "gemini.processSimpleTask"      -> "gemini-1.5-flash"
      [] method = "gemini.processTask"            -> "gemini-1.5-pro"
      [] method = "claude.processTask"            ->
            SelectModel(IF taskComplexity = Undefined \/ taskComplexity = 0
                        THEN DefaultClaudeComplexity ELSE taskComplexity)
      [] method = "claude.processComplexTask"     -> "claude-3-opus-20240229"
      [] method = "deepseek.processReasoningTask" -> "deepseek-coder-v2"

\* What the invoked handler leaves in context.chatHistory: GeminiHandler.
\* processTask copies context.history into it when that is an array, no other
\* handler assigns to the context.
HandlerContextWrite(method, history, chatHistory) ==
    IF method = "gemini.processTask" /\ history = "array"
    THEN "history"
    ELSE chatHistory

\* ------------------------------------------------------------ AIOrchestrationService

\* Variant: priority high lowers medium as well.
GetDynamicThresholdsBothShift(th, priority) ==
    [simple  |-> IF priority = "high" THEN th.simple - HighPriorityShift ELSE th.simple,
     medium  |-> IF priority = "high" THEN th.medium - HighPriorityShift
                 ELSE IF priority = "low" THEN th.medium + LowPriorityShift ELSE th.medium,
     complex |-> th.complex]

\* getDynamicThresholds: a new object, this.thresholds is only read.
GetDynamicThresholds(th, priority) ==
    [simple  |-> IF priority = "high" THEN th.simple - HighPriorityShift ELSE th.simple,
     medium  |-> IF priority = "low" THEN th.medium + LowPriorityShift ELSE th.medium,
     complex |-> th.complex]

\* The argument of updateThresholds: any subset of the fields, each with a value.
Partials ==
    UNION { {p \in [D -> UNION {UpdateValues[f] : f \in Fields}] :
                \A f \in D : p[f] \in UpdateValues[f]} : D \in SUBSET Fields }

\* Variant: the supplied fields spread over the constructor's table.
MergeThresholdsOverDefaults(th, partial) ==
    [f \in Fields |-> IF f \in DOMAIN partial THEN partial[f] ELSE DefaultThresholds[f]]

\* { ...this.thresholds, ...newThresholds }
MergeThresholds(th, partial) ==
    [f \in Fields |-> IF f \in DOMAIN partial THEN partial[f] ELSE th[f]]

\* Variant: the analysis not carried into the metadata.
HandleOrchestrationErrorNoAnalysis(error, analysis) ==
    [message |-> <<"AI orchestration failed">> \o error.message,
     metadata |-> [analysis |-> NoAnalysis, stack |-> error.message]]

\* _handleOrchestrationError: the message wraps the error's message, the
\* metadata carries the analysis and the error's stack (the timestamp is the
\* clock's and is left out).
HandleOrchestrationError(error, analysis) ==
    [message |-> <<"AI orchestration failed">> \o error.message,
     metadata |-> [analysis |-> analysis, stack |-> error.message]]

\* The record the finally block of processTask hands to logTaskMetrics (the
\* duration is the clock's and is left out; the tasks carry no id).
TaskMetrics(modelUsed, taskComplexity, analysis) ==
    [taskId |-> "unknown",
     model |-> modelUsed,
     complexity |-> taskComplexity,
     reasoningType |-> IF analysis.none THEN "unknown" ELSE "analysis.reasoningType"]

\* The error the analyzer throws on a task whose text it cannot lower-case.
AnalyzerError == [message |-> <<"text.toLowerCase is not a function">>]

\* The TypeError of the assignment task.complexity = ... on a task that is a
\* string (a class body is strict code).
StampError == [message |-> <<"Cannot create property 'complexity' on string">>]

\* The error of _handleDocumentCreation: its own validation error for a task
\* without title or content, the Drive service's error otherwise.
DocumentError(valid) ==
    IF valid THEN [message |-> <<"driveService.createDocument">>]
    ELSE [message |-> <<"Document creation requires title and content">>]

\* What _handleDocumentCreation returns.
DocumentResult == [method |-> "document-creation-service", invocation |-> 0]

\* Variant: the record is logged on the success path only.
FinishWithoutFailureLog(cr, outcome, label, result, error) ==
    [cr EXCEPT !.pc = IF outcome = "ok" THEN "resolved" ELSE "rejected",
               !.modelUsed = label,
               !.result = result,
               !.error = error,
               !.metrics = IF outcome = "ok"
                           THEN Append(cr.metrics,
                                       TaskMetrics(label, cr.taskComplexity, cr.analysis))
                           ELSE cr.metrics,
               !.trace = IF outcome = "ok" THEN Append(cr.trace, "log") ELSE cr.trace]

\* The end of a processTask call: the return or the catch block, then the
\* finally block, which logs the metrics record; the promise of the call
\* settles after it.
Finish(cr, outcome, label, result, error) ==
    [cr EXCEPT !.pc = IF outcome = "ok" THEN "resolved" ELSE "rejected",
               !.modelUsed = label,
               !.result = result,
               !.error = error,
               !.metrics = Append(cr.metrics,
                                  TaskMetrics(label, cr.taskComplexity, cr.analysis)),
               !.trace = Append(cr.trace, "log")]

\* ------------------------------------------------------------ initial state

\* No chat call.
NoChat == [pc |-> "idle", n |-> 0]

NoProbe == [pc |-> "none"]

Init ==
    /\ thresholds = DefaultThresholds
    /\ routerThresholds = DefaultThresholds
    /\ call = [c \in Calls |-> Idle]
    /\ lastSupplied = [f \in Fields |-> 0]
    /\ drive = <<>>
    /\ chat = NoChat
    /\ appended = <<>>
    /\ probe = NoProbe

\* ------------------------------------------------------------ processTask

\* processTask up to its first await: the task is not a document creation,
\* analyzer.analyzeTask(task) is called and the call suspends. The analyzer
\* fails on a task whose text field is no string.
StartProcessTask(c) ==
    /\ call[c].pc = "idle"
    /\ \E score \in Scores, stepwise \in BOOLEAN, priority \in Priorities,
          analyzable \in BOOLEAN :
         /\ <<score, stepwise>> \in TaskInputs
         /\ ~analyzable => (<<score, stepwise>> = <<70, FALSE>> /\ priority = "none")
         /\ call' = [call EXCEPT ![c] =
                    [Idle EXCEPT !.pc = "analyze", !.kind = "task",
                                 !.priority = priority,
                                 !.score = score, !.stepwise = stepwise,
                                 !.analyzable = analyzable,
                                 !.trace = <<"analyze">>]]
    /\ UNCHANGED <<thresholds, routerThresholds, lastSupplied, sessionVars, probe>>

\* Variant: the derived thresholds assigned to the router before the
\* create_document test.
StartDocumentCreationAfterDerive(c) ==
    /\ call[c].pc = "idle"
    /\ \E valid \in BOOLEAN :
         call' = [call EXCEPT ![c] =
                    [Idle EXCEPT !.pc = "document", !.kind = "task",
                                 !.action = "create_document",
                                 !.priority = "high",
                                 !.docValid = valid,
                                 !.trace = <<"document">>]]
    /\ routerThresholds' = GetDynamicThresholds(thresholds, "high")
    /\ UNCHANGED <<thresholds, lastSupplied, sessionVars, probe>>

\* processTask with task.action = 'create_document' up to its await:
\* _handleDocumentCreation validates the task and calls the Drive service. The
\* context asks for priority high, the one that would move the router's table.
StartDocumentCreation(c) ==
    /\ call[c].pc = "idle"
    /\ \E valid \in BOOLEAN :
         call' = [call EXCEPT ![c] =
                    [Idle EXCEPT !.pc = "document", !.kind = "task",
                                 !.action = "create_document",
                                 !.priority = "high",
                                 !.docValid = valid,
                                 !.trace = <<"document">>]]
    /\ UNCHANGED <<thresholds, routerThresholds, lastSupplied, sessionVars, probe>>

\* driveService.createDocument resolves: processTask returns the result of
\* _handleDocumentCreation and logs.
DocumentResolves(c) ==
    /\ call[c].pc = "document"
    /\ call[c].docValid
    /\ call' = [call EXCEPT ![c] =
                  Finish(call[c], "ok", "null", DocumentResult, NoError)]
    /\ UNCHANGED <<thresholds, routerThresholds, lastSupplied, sessionVars, probe>>

\* _handleDocumentCreation rejects (validation or Drive): the catch block of
\* processTask wraps the error, analysis still null, and processTask logs.
DocumentRejects(c) ==
    /\ call[c].pc = "document"
    /\ call' = [call EXCEPT ![c] =
                  Finish(call[c], "fail", "null", NoResult,
                         HandleOrchestrationError(DocumentError(call[c].docValid),
                                                  NoAnalysis))]
    /\ UNCHANGED <<thresholds, routerThresholds, lastSupplied, sessionVars, probe>>

\* analyzer.analyzeTask rejects: the catch block wraps the analyzer's error,
\* analysis still null, and processTask logs; no provider is invoked.
AnalysisRejects(c) ==
    /\ call[c].pc = "analyze"
    /\ call[c].kind = "task"
    /\ ~call[c].analyzable
    /\ call' = [call EXCEPT ![c] =
                  Finish(call[c], "fail", "null", NoResult,
                         HandleOrchestrationError(AnalyzerError, NoAnalysis))]
    /\ UNCHANGED <<thresholds, routerThresholds, lastSupplied, sessionVars, probe>>

\* The part of the call record the dispatch of processTask writes: the
\* analysis, the stamp on task.complexity, the provider selected and invoked
\* with the stamped task, what the handler writes into the context.
Dispatched(cr, analysis, sel) ==
    [cr EXCEPT !.pc = "primary",
               !.analysis = analysis,
               !.taskComplexity = analysis.complexity,
               !.selected = sel,
               !.invoked = <<sel.method>>,
               !.args = <<CallArgs(cr)>>,
               !.apiModel = <<ProviderModel(sel.method, analysis.complexity)>>,
               !.chatHistory = HandlerContextWrite(sel.method, cr.history, cr.chatHistory),
               !.trace = cr.trace \o <<"analyzed", "stamp", "derive", "invoke">>]

\* Variant: the derived table assigned to this.thresholds too.
TaskDispatchAssignsBase(c) ==
    /\ call[c].pc = "analyze"
    /\ call[c].kind = "task"
    /\ call[c].analyzable
    /\ LET analysis == AnalyzeTask(call[c].score, call[c].stepwise)
           derived  == GetDynamicThresholds(thresholds, call[c].priority)
           sel      == RouteTask(analysis, derived)
       IN /\ thresholds' = derived
          /\ routerThresholds' = derived
          /\ call' = [call EXCEPT ![c] = Dispatched(call[c], analysis, sel)]
    /\ UNCHANGED <<lastSupplied, sessionVars, probe>>

\* The analysis resolves: task.complexity is stamped, the thresholds are
\* derived and assigned to the router, routeWithFallback calls routeTask, which
\* selects a provider and invokes it; the call suspends on the provider's
\* promise. On a task that is a string the stamp throws: the catch block wraps
\* the TypeError with the analysis and processTask logs, the thresholds not
\* yet derived and no provider invoked.
TaskDispatch(c) ==
    /\ call[c].pc = "analyze"
    /\ call[c].kind = "task"
    /\ call[c].analyzable
    /\ LET analysis == AnalyzeTask(call[c].score, call[c].stepwise)
           derived  == GetDynamicThresholds(thresholds, call[c].priority)
           sel      == RouteTask(analysis, derived)
       IN IF call[c].shape = "string"
          THEN /\ routerThresholds' = routerThresholds
               /\ call' = [call EXCEPT ![c] =
                    Finish([call[c] EXCEPT !.analysis = analysis,
                                           !.trace = Append(call[c].trace, "analyzed")],
                           "fail", "null", NoResult,
                           HandleOrchestrationError(StampError, analysis))]
          ELSE /\ routerThresholds' = derived
               /\ call' = [call EXCEPT ![c] = Dispatched(call[c], analysis, sel)]
    /\ UNCHANGED <<thresholds, lastSupplied, sessionVars, probe>>

\* Variant: the tables reset to the defaults when the call completes.
PrimaryResolvesResetting(c) ==
    /\ call[c].pc = "primary"
    /\ call[c].kind = "task"
    /\ call' = [call EXCEPT ![c] =
                  Finish([call[c] EXCEPT !.settled = Append(call[c].settled, "ok"),
                                         !.trace = Append(call[c].trace, "settle")],
                         "ok", call[c].selected.model,
                         ProviderResponse(call[c].selected.method, Len(call[c].invoked)),
                         NoError)]
    /\ thresholds' = DefaultThresholds
    /\ routerThresholds' = DefaultThresholds
    /\ UNCHANGED <<lastSupplied, sessionVars, probe>>

\* The primary provider call resolves: routeWithFallback returns
\* {result, model}, processTask records the model, logs and returns the result.
PrimaryResolves(c) ==
    /\ call[c].pc = "primary"
    /\ call[c].kind = "task"
    /\ call' = [call EXCEPT ![c] =
                  Finish([call[c] EXCEPT !.settled = Append(call[c].settled, "ok"),
                                         !.trace = Append(call[c].trace, "settle")],
                         "ok", call[c].selected.model,
                         ProviderResponse(call[c].selected.method, Len(call[c].invoked)),
                         NoError)]
    /\ UNCHANGED <<thresholds, routerThresholds, lastSupplied, sessionVars, probe>>

\* Variant: the metrics record written in the catch block of routeWithFallback,
\* before the fallback provider is invoked.
PrimaryRejectsLogsFirst(c) ==
    /\ call[c].pc = "primary"
    /\ call[c].kind = "task"
    /\ LET fb == RouteWithFallbackCatch(call[c].selected)
       IN call' = [call EXCEPT ![c].pc = "fallback",
                               ![c].settled = Append(call[c].settled, "fail"),
                               ![c].selected = [method |-> fb.method, model |-> fb.model],
                               ![c].invoked = Append(call[c].invoked, fb.method),
                               ![c].args = Append(call[c].args, CallArgs(call[c])),
                               ![c].apiModel = Append(call[c].apiModel,
                                   ProviderModel(fb.method, call[c].taskComplexity)),
                               ![c].trace = call[c].trace \o <<"settle", "log", "invoke">>]
    /\ UNCHANGED <<thresholds, routerThresholds, lastSupplied, sessionVars, probe>>

\* The primary provider call rejects: the catch block of routeWithFallback
\* runs and invokes the fallback provider.
PrimaryRejects(c) ==
    /\ call[c].pc = "primary"
    /\ call[c].kind = "task"
    /\ LET err == ProviderError(call[c].selected.method, 1)
           fb  == RouteWithFallbackCatch(call[c].selected)
           cr  == [call[c] EXCEPT !.settled = Append(call[c].settled, "fail"),
                                  !.trace = Append(call[c].trace, "settle")]
       IN call' = IF fb.rethrow
                  THEN [call EXCEPT ![c] =
                          Finish(cr, "fail", "null", NoResult,
                                 HandleOrchestrationError(err, call[c].analysis))]
                  ELSE [call EXCEPT ![c] =
                          [cr EXCEPT
                             !.pc = "fallback",
                             !.selected = [method |-> fb.method, model |-> fb.model],
                             !.invoked = Append(call[c].invoked, fb.method),
                             !.args = Append(call[c].args,
                                 [task |-> IF fb.passesTask
                                           THEN CallArgs(call[c]).task
                                           ELSE [undefined |-> TRUE],
                                  context |-> IF fb.passesContext
                                              THEN CallArgs(call[c]).context
                                              ELSE [undefined |-> TRUE]]),
                             !.apiModel = Append(call[c].apiModel,
                                 ProviderModel(fb.method, call[c].taskComplexity)),
                             !.chatHistory = HandlerContextWrite(fb.method,
                                 call[c].history, call[c].chatHistory),
                             !.trace = Append(cr.trace, "invoke")]]
    /\ UNCHANGED <<thresholds, routerThresholds, lastSupplied, sessionVars, probe>>

\* Variant: the primary error rethrown although the fallback resolved.
FallbackResolvesRethrow(c) ==
    /\ call[c].pc = "fallback"
    /\ call' = [call EXCEPT ![c] =
                  Finish([call[c] EXCEPT !.settled = Append(call[c].settled, "ok"),
                                         !.trace = Append(call[c].trace, "settle")],
                         "fail", "null", NoResult,
                         HandleOrchestrationError(
                             ProviderError(call[c].invoked[1], 1), call[c].analysis))]
    /\ UNCHANGED <<thresholds, routerThresholds, lastSupplied, sessionVars, probe>>

\* The fallback provider call resolves: routeWithFallback returns the
\* fallback's {result, model}, processTask logs and returns the result.
FallbackResolves(c) ==
    /\ call[c].pc = "fallback"
    /\ call' = [call EXCEPT ![c] =
                  Finish([call[c] EXCEPT !.settled = Append(call[c].settled, "ok"),
                                         !.trace = Append(call[c].trace, "settle")],
                         "ok", call[c].selected.model,
                         ProviderResponse(call[c].selected.method, Len(call[c].invoked)),
                         NoError)]
    /\ UNCHANGED <<thresholds, routerThresholds, lastSupplied, sessionVars, probe>>

\* The fallback provider call rejects: its error leaves routeWithFallback, the
\* catch block of processTask wraps it, processTask logs and rejects.
FallbackRejects(c) ==
    /\ call[c].pc = "fallback"
    /\ LET err == ProviderError(call[c].selected.method, Len(call[c].invoked))
       IN call' = [call EXCEPT ![c] =
                     Finish([call[c] EXCEPT !.settled = Append(call[c].settled, "fail"),
                                            !.trace = Append(call[c].trace, "settle")],
                            "fail", "null", NoResult,
                            HandleOrchestrationError(err, call[c].analysis))]
    /\ UNCHANGED <<thresholds, routerThresholds, lastSupplied, sessionVars, probe>>

\* ------------------------------------------------------------ chat mode

\* _processChatRequest up to its first await: analyzer.analyzeTask is called.
\* The stepwise flag of the analysis, which this path never reads, is false
\* here; the dispatch of both flags is in RouteSpec.
StartChatRequest(c) ==
    /\ call[c].pc = "idle"
    /\ \E score \in Scores :
         call' = [call EXCEPT ![c] =
                    [Idle EXCEPT !.pc = "analyze", !.kind = "chat",
                                 !.score = score]]
    /\ UNCHANGED <<thresholds, routerThresholds, lastSupplied, sessionVars, probe>>

\* The analysis resolves: router.routeByComplexity selects a provider with
\* the router's current thresholds and invokes it with a task that carries no
\* complexity.
ChatDispatch(c) ==
    /\ call[c].pc = "analyze"
    /\ call[c].kind = "chat"
    /\ LET analysis == AnalyzeTask(call[c].score, call[c].stepwise)
           sel      == RouteByComplexity(analysis.complexity, routerThresholds)
       IN call' = [call EXCEPT ![c].pc = "primary",
                               ![c].analysis = analysis,
                               ![c].selected = sel,
                               ![c].invoked = <<sel.method>>,
                               ![c].args = <<CallArgs(call[c])>>,
                               ![c].apiModel = <<ProviderModel(sel.method, Undefined)>>]
    /\ UNCHANGED <<thresholds, routerThresholds, lastSupplied, sessionVars, probe>>

\* The provider call of a chat request resolves.
ChatResolves(c) ==
    /\ call[c].pc = "primary"
    /\ call[c].kind = "chat"
    /\ call' = [call EXCEPT ![c].pc = "resolved",
                            ![c].settled = Append(call[c].settled, "ok"),
                            ![c].modelUsed = call[c].selected.model,
                            ![c].result = ProviderResponse(call[c].selected.method,
                                                           Len(call[c].invoked))]
    /\ UNCHANGED <<thresholds, routerThresholds, lastSupplied, sessionVars, probe>>

\* The provider call of a chat request rejects: _processChatRequest has no
\* try block, the provider's error is its rejection.
ChatRejects(c) ==
    /\ call[c].pc = "primary"
    /\ call[c].kind = "chat"
    /\ call' = [call EXCEPT ![c].pc = "rejected",
                            ![c].settled = Append(call[c].settled, "fail"),
                            ![c].error = ProviderError(call[c].selected.method, 1)]
    /\ UNCHANGED <<thresholds, routerThresholds, lastSupplied, sessionVars, probe>>

\* ------------------------------------------------------------ callers

\* The caller has taken the result or the error of a finished call.
Return(c) ==
    /\ call[c].pc \in {"resolved", "rejected"}
    /\ call' = [call EXCEPT ![c] = Idle]
    /\ UNCHANGED <<thresholds, routerThresholds, lastSupplied, sessionVars, probe>>

\* updateThresholds(newThresholds)
UpdateThresholds ==
    /\ \E partial \in Partials :
         /\ thresholds' = MergeThresholds(thresholds, partial)
         /\ lastSupplied' = [f \in Fields |->
                               IF f \in DOMAIN partial THEN partial[f]
                               ELSE lastSupplied[f]]
    /\ call' = [c \in Calls |->
                  IF call[c].pc = "analyze"
                  THEN [call[c] EXCEPT !.updatedSinceStart = TRUE]
                  ELSE call[c]]
    /\ UNCHANGED <<routerThresholds, sessionVars, probe>>

Next ==
    \/ \E c \in Calls : StartProcessTask(c)
    \/ \E c \in Calls : StartDocumentCreation(c)
    \/ \E c \in Calls : DocumentResolves(c)
    \/ \E c \in Calls : DocumentRejects(c)
    \/ \E c \in Calls : AnalysisRejects(c)
    \/ \E c \in Calls : TaskDispatch(c)
    \/ \E c \in Calls : PrimaryResolves(c)
    \/ \E c \in Calls : PrimaryRejects(c)
    \/ \E c \in Calls : FallbackResolves(c)
    \/ \E c \in Calls : FallbackRejects(c)
    \/ \E c \in Calls : StartChatRequest(c)
    \/ \E c \in Calls : ChatDispatch(c)
    \/ \E c \in Calls : ChatResolves(c)
    \/ \E c \in Calls : ChatRejects(c)
    \/ \E c \in Calls : Return(c)
    \/ UpdateThresholds

Spec == Init /\ [][Next]_vars

\* ------------------------------------------------------------ dispatch alone

\* Threshold tables an update can leave in the service or in the router,
\* ordered ones and others.
RouteTables ==
    [simple : {0, 10, 30}, medium : {30, 60, 75}, complex : {70, 85, 100}]

\* One call that has been analysed and is about to dispatch, for every score
\* the scorer can return: a processTask call over every base table (the router
\* holding what an earlier call left there) and every context, a chat request
\* over every router table.
RouteInit ==
    /\ \E kind \in {"task", "chat"}, score \in AllScores, stepwise \in BOOLEAN,
          priority \in Priorities, th \in RouteTables,
          left \in {DefaultThresholds, GetDynamicThresholds(DefaultThresholds, "high")},
          requiresReasoning \in BOOLEAN, history \in {"absent", "array"} :
        /\ kind = "chat" => /\ priority = "none"
                            /\ left = DefaultThresholds
                            /\ ~requiresReasoning
                            /\ history = "absent"
        /\ thresholds = IF kind = "task" THEN th ELSE left
        /\ routerThresholds = IF kind = "chat" THEN th ELSE left
        /\ call = [c \in Calls |->
                     IF c = 1
                     THEN [Idle EXCEPT !.pc = "analyze", !.kind = kind,
                                       !.priority = priority,
                                       !.score = score, !.stepwise = stepwise,
                                       !.requiresReasoning = requiresReasoning,
                                       !.history = history,
                                       !.trace = IF kind = "task"
                                                 THEN <<"analyze">> ELSE <<>>]
                     ELSE Idle]
    /\ lastSupplied = [f \in Fields |-> 0]
    /\ drive = <<>>
    /\ chat = NoChat
    /\ appended = <<>>
    /\ probe = NoProbe

RouteNext ==
    \/ \E c \in Calls : TaskDispatch(c)
    \/ \E c \in Calls : ChatDispatch(c)

RouteSpec == RouteInit /\ [][RouteNext]_vars

\* One call from its dispatch to the settling of its provider call: the chat
\* request beside the processTask call of the same analysis.
PolicyNext ==
    \/ \E c \in Calls : TaskDispatch(c)
    \/ \E c \in Calls : ChatDispatch(c)
    \/ \E c \in Calls : ChatResolves(c)
    \/ \E c \in Calls : ChatRejects(c)

PolicySpec == RouteInit /\ [][PolicyNext]_vars

\* The complexity a caller can have put on the task it passes.
SuppliedComplexities == {Undefined, 99}

\* The tasks of the stamp specification, by score and stepwise flag: one per
\* tier of the default table besides those of the concurrent specification.
StampInputs == TaskInputs \cup {<<45, FALSE>>, <<90, FALSE>>}

\* One processTask call that is no document creation: the task is a string or
\* an object, with or without a complexity of the caller's; the call has
\* reached its first await.
StampInit ==
    /\ thresholds = DefaultThresholds
    /\ routerThresholds = DefaultThresholds
    /\ \E shape \in {"object", "string"}, supplied \in SuppliedComplexities,
          input \in StampInputs, priority \in Priorities :
        /\ shape = "string" => supplied = Undefined
        /\ call = [c \in Calls |->
                     IF c = 1
                     THEN [Idle EXCEPT !.pc = "analyze", !.kind = "task",
                                       !.shape = shape,
                                       !.taskComplexity = supplied,
                                       !.priority = priority,
                                       !.score = input[1], !.stepwise = input[2],
                                       !.trace = <<"analyze">>]
                     ELSE Idle]
    /\ lastSupplied = [f \in Fields |-> 0]
    /\ drive = <<>>
    /\ chat = NoChat
    /\ appended = <<>>
    /\ probe = NoProbe

StampNext ==
    \/ \E c \in Calls : TaskDispatch(c)
    \/ \E c \in Calls : PrimaryResolves(c)
    \/ \E c \in Calls : PrimaryRejects(c)
    \/ \E c \in Calls : FallbackResolves(c)
    \/ \E c \in Calls : FallbackRejects(c)

StampSpec == StampInit /\ [][StampNext]_vars

\* ------------------------------------------------------------ analysis layer

\* What a field of a task object can hold, by JavaScript type and truthiness:
\* no such field, '', a non-empty string, a non-zero number, an array of
\* {type, text} parts, an array with a null part, another object.
ValueKinds ==
    {"absent", "emptyString", "string", "number", "array", "arrayWithNull", "object"}

Truthy(v) == v \notin {"absent", "emptyString"}

\* The tasks handed to analyzeTask: a plain string, or an object known by its
\* prompt, content, text and query fields.
Tasks ==
    {[shape |-> "string", prompt |-> "absent", content |-> "absent",
      text |-> "absent", query |-> "absent"]}
    \cup [shape : {"object"}, prompt : ValueKinds, content : ValueKinds,
          text : ValueKinds, query : ValueKinds]

\* ComplexityScorer.extractTextContent: the text scored, or the TypeError of
\* item.type on a null part.
ExtractTextContent(task) ==
    IF task.shape = "string" THEN [throws |-> FALSE, text |-> "task"]
    ELSE IF task.content = "string" THEN [throws |-> FALSE, text |-> "content"]
    ELSE IF task.content = "array" THEN [throws |-> FALSE, text |-> "text parts"]
    ELSE IF task.content = "arrayWithNull" THEN [throws |-> TRUE, text |-> "none"]
    ELSE [throws |-> FALSE, text |-> "JSON.stringify(task)"]

\* ReasoningAnalyzer._extractTaskText: the value returned and whether it is a
\* string (prompt, text and query are returned as they are).
ExtractTaskText(task) ==
    IF task.shape = "string" THEN [text |-> "task", isString |-> TRUE]
    ELSE IF Truthy(task.prompt)
    THEN [text |-> "prompt", isString |-> task.prompt = "string"]
    ELSE IF Truthy(task.content)
    THEN IF task.content = "string"
         THEN [text |-> "content", isString |-> TRUE]
         ELSE [text |-> "JSON.stringify(content)", isString |-> TRUE]
    ELSE IF Truthy(task.text)
    THEN [text |-> "text", isString |-> task.text = "string"]
    ELSE IF Truthy(task.query)
    THEN [text |-> "query", isString |-> task.query = "string"]
    ELSE [text |-> "JSON.stringify(task)", isString |-> TRUE]

\* TaskAnalyzer.analyzeTask: Promise.all of scoreTask and
\* determineReasoningRequirements rejects when either throws; the analyzer's
\* text.toLowerCase() throws on a value that is no string.
AnalyzeTaskOutcome(task) ==
    IF ExtractTextContent(task).throws
    THEN [status |-> "rejected", error |-> "scorer", scored |-> "none", analysed |-> "none"]
    ELSE IF ~ExtractTaskText(task).isString
    THEN [status |-> "rejected", error |-> "analyzer", scored |-> "none", analysed |-> "none"]
    ELSE [status |-> "resolved", error |-> "none",
          scored |-> ExtractTextContent(task).text,
          analysed |-> ExtractTaskText(task).text]

\* One task is handed to analyzeTask.
AnalyzeInit ==
    /\ thresholds = DefaultThresholds
    /\ routerThresholds = DefaultThresholds
    /\ call = [c \in Calls |-> Idle]
    /\ lastSupplied = [f \in Fields |-> 0]
    /\ drive = <<>>
    /\ chat = NoChat
    /\ appended = <<>>
    /\ \E task \in Tasks : probe = [pc |-> "analyze", task |-> task]

\* analyzeTask settles.
AnalyzeTaskSettles ==
    /\ probe.pc = "analyze"
    /\ probe' = [pc |-> "settled", task |-> probe.task,
                 outcome |-> AnalyzeTaskOutcome(probe.task)]
    /\ UNCHANGED <<routingVars, sessionVars>>

AnalyzeNext == AnalyzeTaskSettles

AnalyzeSpec == AnalyzeInit /\ [][AnalyzeNext]_vars

\* ------------------------------------------------------------ chat sessions

\* Session ids are known by how they were made and when: "null" is no id,
\* "new" the constructor's `chat-${Date.now()}`, "chat" the
\* `chat-${Date.now()}-${userId}` of _createNewSession, "file" the id Drive
\* gave to a file (the position of the file in `drive`).
NullId == [kind |-> "null", n |-> 0]

\* The id of a session stored before the first call of the run.
StoredId == [kind |-> "chat", n |-> 0]

\* A message of a history: its role and its content (the timestamp is the
\* clock's and is left out).
Message(role, what, n) == [role |-> role, content |-> <<what, n>>]

InitMessage == Message("system", "Chat session initialized", 0)

\* What the file of a stored session can hold: the JSON of a session, text
\* that is no JSON, or the JSON of a value without a history property (42,
\* true, {}).
StoredContents ==
    {[kind |-> "session", history |-> <<InitMessage>>],
     [kind |-> "garbage", history |-> <<>>],
     [kind |-> "noHistory", history |-> <<>>]}

\* JSON.stringify(sessionData)
SessionData(history) == [kind |-> "session", history |-> history]

\* driveService.createOrUpdateFile(`${sessionId}.json`, ...): the file of that
\* name is updated if findFileByName finds one, created with a new file id
\* otherwise.
CreateOrUpdateFile(files, name, content) ==
    IF \E i \in DOMAIN files : files[i].name = name
    THEN LET i == CHOOSE j \in DOMAIN files : files[j].name = name
         IN [files EXCEPT ![i].content = content]
    ELSE Append(files, [name |-> name, content |-> content])

\* driveService.readFile(fileId): drive.files.get by file id.
FileExists(files, id) == id.kind = "file" /\ id.n \in DOMAIN files

\* The messages a caller sends: "chat" is a message in which no task is
\* detected and that asks for none, "task" one with mode 'task', with a
\* detected task intent or sent with options.taskMode, "typed" one that only
\* names a taskType.
Requests == {"chat", "task", "typed"}

\* taskDetection.isTask || options.taskMode
IsTask(request) == request = "task"

\* processUnifiedRequest: metadata.isTask, or a taskType other than 'chat',
\* sends the request to _processTaskRequest.
TaskPath(request) == IsTask(request) \/ request = "typed"

\* No result returned.
NoChatResult == [type |-> "none", wasTask |-> FALSE]

\* The chat call in flight: its position, the sessionId argument, the
\* message, the ChatSession (sessionId, history), what the load met, how the
\* processing ended, the result returned, the session ids returned to the
\* caller so far.
IdleChat(n, known) ==
    [pc |-> "idle", n |-> n, supplied |-> NullId, sessionId |-> NullId,
     request |-> "chat",
     historyDefined |-> TRUE, history |-> <<>>, stored |-> "none",
     outcome |-> "none", result |-> NoChatResult, known |-> known]

\* ChatSession._createNewSession up to its await: a new id, a fresh history.
CreateNewSession(ch, met) ==
    [ch EXCEPT !.pc = "create",
               !.sessionId = [kind |-> "chat", n |-> ch.n],
               !.historyDefined = TRUE,
               !.history = <<InitMessage>>,
               !.stored = met]

\* ChatSession.addMessage: history.push(message), then _saveToDrive.
AddMessage(ch, message) == [ch EXCEPT !.history = Append(ch.history, message)]

\* Before the first chat call the Drive folder holds nothing or one stored
\* session.
SessionInit ==
    /\ thresholds = DefaultThresholds
    /\ routerThresholds = DefaultThresholds
    /\ call = [c \in Calls |-> Idle]
    /\ lastSupplied = [f \in Fields |-> 0]
    /\ probe = NoProbe
    /\ \/ drive = <<>>
       \/ \E content \in StoredContents :
            drive = <<[name |-> StoredId, content |-> content]>>
    /\ chat = IdleChat(0, {})
    /\ appended = <<>>

\* processChatMessage(userId, sessionId, message) up to its first await: the
\* caller passes no id, an id an earlier call returned, the id of the session
\* stored earlier, or the Drive file id of a stored session; new ChatSession,
\* initialize, _loadExistingSession calls driveService.readFile(sessionId).
StartChatMessage ==
    /\ chat.pc \in {"idle", "returned", "failed"}
    /\ chat.n < MaxChats
    /\ \E supplied \in {NullId, StoredId} \cup chat.known
                       \cup {[kind |-> "file", n |-> i] : i \in DOMAIN drive},
          request \in Requests :
         chat' = [IdleChat(chat.n + 1, chat.known) EXCEPT
                    !.pc = "load",
                    !.supplied = supplied,
                    !.request = request,
                    !.sessionId = IF supplied = NullId
                                  THEN [kind |-> "new", n |-> chat.n + 1]
                                  ELSE supplied]
    /\ UNCHANGED <<routingVars, drive, appended, probe>>

\* readFile resolves with the content of the file: JSON.parse throws on text
\* that is no JSON and the catch block creates a new session; otherwise
\* history and context are taken from the parsed object as they are.
LoadResolves ==
    /\ chat.pc = "load"
    /\ FileExists(drive, chat.sessionId)
    /\ LET content == drive[chat.sessionId.n].content
       IN chat' = CASE content.kind = "garbage" -> CreateNewSession(chat, "garbage")
                    [] content.kind = "noHistory" ->
                         [chat EXCEPT !.pc = "initialized", !.historyDefined = FALSE,
                                      !.history = <<>>, !.stored = "noHistory"]
                    [] content.kind = "session" ->
                         [chat EXCEPT !.pc = "initialized",
                                      !.history = content.history, !.stored = "session"]
    /\ UNCHANGED <<routingVars, drive, appended, probe>>

\* readFile rejects, no file has this id: the catch block creates a new
\* session.
LoadRejects ==
    /\ chat.pc = "load"
    /\ ~FileExists(drive, chat.sessionId)
    /\ chat' = CreateNewSession(chat, "missing")
    /\ UNCHANGED <<routingVars, drive, appended, probe>>

\* The _saveToDrive of _createNewSession resolves; initialize returns.
NewSessionSaved ==
    /\ chat.pc = "create"
    /\ drive' = CreateOrUpdateFile(drive, chat.sessionId, SessionData(chat.history))
    /\ chat' = [chat EXCEPT !.pc = "initialized"]
    /\ UNCHANGED <<routingVars, appended, probe>>

\* session.addMessage('user', content): push on a history that is undefined
\* throws a TypeError, which the outer catch of processChatMessage rethrows as
\* 'Failed to process chat message'; otherwise the message is pushed and saved.
AddUserMessage ==
    /\ chat.pc = "initialized"
    /\ IF chat.historyDefined
       THEN LET m  == Message("user", "message", chat.n)
                ch == AddMessage(chat, m)
            IN /\ chat' = [ch EXCEPT !.pc = "process"]
               /\ drive' = CreateOrUpdateFile(drive, chat.sessionId, SessionData(ch.history))
               /\ appended' = Append(appended, [id |-> chat.sessionId, message |-> m])
       ELSE /\ chat' = [chat EXCEPT !.pc = "failed"]
            /\ UNCHANGED <<drive, appended>>
    /\ UNCHANGED <<routingVars, probe>>

\* Variant: the system message added whatever the processing returned.
ProcessingSettlesAlwaysSystem ==
    /\ chat.pc = "process"
    /\ \E outcome \in {IF TaskPath(chat.request) THEN "task" ELSE "chat", "error"} :
         LET m  == Message("system", "Task executed", chat.n)
             ch == AddMessage(chat, m)
         IN /\ chat' = [ch EXCEPT !.pc = "respond", !.outcome = outcome]
            /\ drive' = CreateOrUpdateFile(drive, chat.sessionId, SessionData(ch.history))
            /\ appended' = Append(appended, [id |-> chat.sessionId, message |-> m])
    /\ UNCHANGED <<routingVars, probe>>

\* processUnifiedRequest settles: _processTaskRequest returns a result of type
\* 'task' (a system message is added to the session), _processChatRequest one
\* of type 'chat', or either rejects with an error the inner catch turns into
\* the response.
ProcessingSettles ==
    /\ chat.pc = "process"
    /\ \E outcome \in {IF TaskPath(chat.request) THEN "task" ELSE "chat", "error"} :
         IF outcome = "task"
         THEN LET m  == Message("system", "Task executed", chat.n)
                  ch == AddMessage(chat, m)
              IN /\ chat' = [ch EXCEPT !.pc = "respond", !.outcome = outcome]
                 /\ drive' = CreateOrUpdateFile(drive, chat.sessionId,
                                                SessionData(ch.history))
                 /\ appended' = Append(appended, [id |-> chat.sessionId, message |-> m])
         ELSE /\ chat' = [chat EXCEPT !.pc = "respond", !.outcome = outcome]
              /\ UNCHANGED <<drive, appended>>
    /\ UNCHANGED <<routingVars, probe>>

\* session.addMessage('assistant', response), the response being the error
\* text after a processing error, then the call returns {response, sessionId:
\* session.sessionId, type: responseType, wasTask: taskDetection.isTask ||
\* options.taskMode, ...}; responseType is 'chat' unless the processing
\* returned a result of type 'task'.
AddAssistantMessage ==
    /\ chat.pc = "respond"
    /\ LET m  == Message("assistant",
                         IF chat.outcome = "error"
                         THEN "I encountered an error while processing your request"
                         ELSE "response",
                         chat.n)
           ch == AddMessage(chat, m)
       IN /\ chat' = [ch EXCEPT !.pc = "returned",
                                !.result = [type |-> IF chat.outcome = "task"
                                                     THEN "task" ELSE "chat",
                                            wasTask |-> IsTask(chat.request)],
                                !.known = chat.known \cup {chat.sessionId}]
          /\ drive' = CreateOrUpdateFile(drive, chat.sessionId, SessionData(ch.history))
          /\ appended' = Append(appended, [id |-> chat.sessionId, message |-> m])
    /\ UNCHANGED <<routingVars, probe>>

SessionNext ==
    \/ StartChatMessage
    \/ LoadResolves
    \/ LoadRejects
    \/ NewSessionSaved
    \/ AddUserMessage
    \/ ProcessingSettles
    \/ AddAssistantMessage

SessionSpec == SessionInit /\ [][SessionNext]_vars

\* ------------------------------------------------------------ ComplexityScorer

\* The texts handed to the scorer, by what the ladders measure: the number of
\* characters, the share of them inside code spans (in percent), the number of
\* technical terms, the number of structural elements in thirds (a table match
\* counts for a third of an element). The values lie on both sides of every
\* breakpoint.
TextLengths == {0, 1, 99, 100, 499, 500, 999, 1000, 2999, 3000}

CodeShares == {0, 9, 10, 29, 30, 49, 50, 69, 70, 100}

TermCounts == {0, 1, 2, 3, 5, 6, 9, 10}

ElementThirds == {0, 8, 9, 29, 30, 59, 60, 89, 90}

\* task.context, task.references, task.history: none of them, a context
\* object with so many keys, or something else that is truthy.
ContextKinds ==
    {[kind |-> "none", keys |-> 0], [kind |-> "other", keys |-> 0]}
    \cup [kind : {"object"}, keys : {0, 1, 2, 4, 5, 9, 10}]

\* The weights of the constructor, in hundredths.
Weights == [length |-> 30, codeContent |-> 25, technicalTerms |-> 20,
            structuralComplexity |-> 15, contextDependency |-> 10]

\* scoreLengthComplexity
ScoreLengthComplexity(length) ==
    IF length < 100 THEN 10
    ELSE IF length < 500 THEN 30
    ELSE IF length < 1000 THEN 50
    ELSE IF length < 3000 THEN 70
    ELSE 90

\* scoreCodeContent: codeRatio = codeLength / text.length is NaN for the empty
\* text (0 / 0) and every comparison with NaN is false.
ScoreCodeContent(codeLength, length) ==
    IF length = 0 THEN 95
    ELSE IF 10 * codeLength < length THEN 20
    ELSE IF 10 * codeLength < 3 * length THEN 40
    ELSE IF 10 * codeLength < 5 * length THEN 60
    ELSE IF 10 * codeLength < 7 * length THEN 80
    ELSE 95

\* scoreTechnicalTerms
ScoreTechnicalTerms(termCount) ==
    IF termCount = 0 THEN 10
    ELSE IF termCount < 3 THEN 30
    ELSE IF termCount < 6 THEN 50
    ELSE IF termCount < 10 THEN 70
    ELSE 90

\* scoreStructuralComplexity: listItems + headings + tables / 3, in thirds.
ScoreStructuralComplexity(elementThirds) ==
    IF elementThirds < 3 * 3 THEN 20
    ELSE IF elementThirds < 3 * 10 THEN 40
    ELSE IF elementThirds < 3 * 20 THEN 60
    ELSE IF elementThirds < 3 * 30 THEN 80
    ELSE 95

\* scoreContextDependency
ScoreContextDependency(context) ==
    IF context.kind = "none" THEN 20
    ELSE IF context.kind = "object"
    THEN IF context.keys < 2 THEN 30
         ELSE IF context.keys < 5 THEN 50
         ELSE IF context.keys < 10 THEN 70
         ELSE 90
    ELSE 50

\* Variant: the weighted sum cut to its integer part. The argument is the sum
\* in hundredths.
Truncate(hundredths) == hundredths \div 100

\* Math.round: the nearest integer, a half rounded up.
Round(hundredths) == (hundredths + 50) \div 100

\* Math.min(a, b)
Min(a, b) == IF a < b THEN a ELSE b

\* scoreTask, from the sub-scores on: the weighted sum, Math.round, Math.min
\* with 100.
ScoreTask(text, context) ==
    LET lengthScore     == ScoreLengthComplexity(text.length)
        codeScore       == ScoreCodeContent(text.codeLength, text.length)
        termsScore      == ScoreTechnicalTerms(text.termCount)
        structuralScore == ScoreStructuralComplexity(text.elementThirds)
        contextScore    == ScoreContextDependency(context)
        weightedScore   == lengthScore * Weights.length
                           + codeScore * Weights.codeContent
                           + termsScore * Weights.technicalTerms
                           + structuralScore * Weights.structuralComplexity
                           + contextScore * Weights.contextDependency
    IN [score |-> Min(Round(weightedScore), 100),
        components |-> [length |-> lengthScore, code |-> codeScore,
                        terms |-> termsScore, structure |-> structuralScore,
                        context |-> contextScore]]

\* The texts of the bounded sets.
Texts ==
    {[length |-> l, codeLength |-> (l * s) \div 100, termCount |-> t, elementThirds |-> e] :
        l \in TextLengths, s \in CodeShares, t \in TermCounts, e \in ElementThirds}

\* One task is handed to scoreTask.
ScoreInit ==
    /\ thresholds = DefaultThresholds
    /\ routerThresholds = DefaultThresholds
    /\ call = [c \in Calls |-> Idle]
    /\ lastSupplied = [f \in Fields |-> 0]
    /\ drive = <<>>
    /\ chat = NoChat
    /\ appended = <<>>
    /\ \E text \in Texts, context \in ContextKinds :
         probe = [pc |-> "score", text |-> text, context |-> context]

\* scoreTask returns.
ScoreTaskReturns ==
    /\ probe.pc = "score"
    /\ probe' = [pc |-> "scored", text |-> probe.text, context |-> probe.context,
                 result |-> ScoreTask(probe.text, probe.context)]
    /\ UNCHANGED <<routingVars, sessionVars>>

ScoreNext == ScoreTaskReturns

ScoreSpec == ScoreInit /\ [][ScoreNext]_vars

\* ------------------------------------------------------------ text extraction

\* GeminiHandler.buildPrompt, the part that adds the task content: the text
\* appended to the prompt, or the TypeError of item.type on a null part. A
\* truthy content that is neither a string nor an array adds nothing.
BuildPrompt(task) ==
    IF task.shape = "string" THEN [throws |-> FALSE, text |-> "task"]
    ELSE IF Truthy(task.content)
    THEN IF task.content = "string" THEN [throws |-> FALSE, text |-> "content"]
         ELSE IF task.content = "array" THEN [throws |-> FALSE, text |-> "text parts"]
         ELSE IF task.content = "arrayWithNull" THEN [throws |-> TRUE, text |-> "none"]
         ELSE [throws |-> FALSE, text |-> ""]
    ELSE [throws |-> FALSE, text |-> "JSON.stringify(task)"]

\* One task is handed to the three components that read its text.
ExtractInit ==
    /\ thresholds = DefaultThresholds
    /\ routerThresholds = DefaultThresholds
    /\ call = [c \in Calls |-> Idle]
    /\ lastSupplied = [f \in Fields |-> 0]
    /\ drive = <<>>
    /\ chat = NoChat
    /\ appended = <<>>
    /\ \E task \in Tasks : probe = [pc |-> "extract", task |-> task]

\* The scorer, the analyzer and the prompt builder each extract the text.
ExtractText ==
    /\ probe.pc = "extract"
    /\ probe' = [pc |-> "extracted", task |-> probe.task,
                 scorer |-> ExtractTextContent(probe.task),
                 analyzer |-> ExtractTaskText(probe.task),
                 prompt |-> BuildPrompt(probe.task)]
    /\ UNCHANGED <<routingVars, sessionVars>>

ExtractNext == ExtractText

ExtractSpec == ExtractInit /\ [][ExtractNext]_vars

\* ------------------------------------------------------------ ReasoningAnalyzer

\* Number of phrases of a task text.
MaxPhrases == 3

\* this.stepwiseIndicators
StepwiseIndicators ==
    {"step by step", "explain your reasoning", "show your work", "break down",
     "walk through", "reasoning process", "chain of thought", "think through"}

\* this.typeKeywords, mathematical and logical
MathematicalKeywords == {"calculate", "compute", "solve", "equation", "formula"}

LogicalKeywords == {"valid", "invalid", "fallacy", "argument", "premise", "conclusion"}

\* The phrases a task text is made of: the indicators and keywords, two of
\* them in capitals, a keyword of another reasoning type and a plain word.
Phrases ==
    StepwiseIndicators \cup MathematicalKeywords \cup LogicalKeywords
    \cup {"Show Your Work", "SOLVE", "because", "hello"}

\* String.prototype.toLowerCase, phrase by phrase
ToLowerCase(phrase) ==
    CASE phrase = "Show Your Work" -> "show your work"
      [] phrase = "SOLVE"          -> "solve"
      [] OTHER                     -> phrase

\* String.prototype.includes on a phrase: a phrase includes itself, and
\* 'invalid' includes 'valid'.
PhraseIncludes(phrase, keyword) ==
    \/ phrase = keyword
    \/ phrase = "invalid" /\ keyword = "valid"

\* text.includes(keyword) for the text made of the phrases
Includes(text, keyword) == \E phrase \in text : PhraseIncludes(phrase, keyword)

\* Variant: the text searched as it is, without lower-casing.
RequiresStepwiseReasoningCaseSensitive(text) ==
    \/ \E indicator \in StepwiseIndicators : Includes(text, indicator)
    \/ Cardinality({k \in MathematicalKeywords \cup LogicalKeywords : Includes(text, k)}) >= 2

\* _requiresStepwiseReasoning: the reduce adds 1 for each keyword of the two
\* lists that the lower-cased text includes.
RequiresStepwiseReasoning(text) ==
    LET textLower == {ToLowerCase(phrase) : phrase \in text}
    IN \/ \E indicator \in StepwiseIndicators : Includes(textLower, indicator)
       \/ Cardinality({k \in MathematicalKeywords \cup LogicalKeywords :
                          Includes(textLower, k)}) >= 2

\* The task texts: up to MaxPhrases phrases.
PhraseTexts == {text \in SUBSET Phrases : Cardinality(text) <= MaxPhrases}

\* One task text is handed to the analysis, with the score the scorer gives it.
ReasonInit ==
    /\ thresholds = DefaultThresholds
    /\ routerThresholds = DefaultThresholds
    /\ call = [c \in Calls |-> Idle]
    /\ lastSupplied = [f \in Fields |-> 0]
    /\ drive = <<>>
    /\ chat = NoChat
    /\ appended = <<>>
    /\ \E text \in PhraseTexts, score \in Scores :
         probe = [pc |-> "analyze", text |-> text, score |-> score]

\* analyzeTask resolves with requiresStepwise = reasoning.stepwise and
\* routeTask selects the tier.
ReasonAnalyzed ==
    /\ probe.pc = "analyze"
    /\ LET analysis == AnalyzeTask(probe.score, RequiresStepwiseReasoning(probe.text))
       IN probe' = [pc |-> "routed", text |-> probe.text, score |-> probe.score,
                    analysis |-> analysis,
                    selected |-> RouteTask(analysis, DefaultThresholds)]
    /\ UNCHANGED <<routingVars, sessionVars>>

ReasonNext == ReasonAnalyzed

ReasonSpec == ReasonInit /\ [][ReasonNext]_vars

\* ------------------------------------------------------------ GeminiHandler

\* callGeminiAPI: MAX_RETRIES
MAX_RETRIES == 3

\* The errors a request to the Gemini API can fail with: code 503, code 429, a
\* message that contains 'quota', another code with another message.
GeminiErrors == {"503", "429", "quota", "other"}

\* The models of the handler.
GeminiModels == {"gemini-1.5-flash", "gemini-1.5-pro"}

\* Variant: every error is retried.
IsRetryableErrorAny(error) == error \in GeminiErrors

\* isRetryableError
IsRetryableError(error) == error = "503" \/ error = "quota" \/ error = "429"

\* callGeminiAPI up to its first await: attempt 0, the first generateContent
\* request is out, for a flash or a pro call.
GeminiInit ==
    /\ thresholds = DefaultThresholds
    /\ routerThresholds = DefaultThresholds
    /\ call = [c \in Calls |-> Idle]
    /\ lastSupplied = [f \in Fields |-> 0]
    /\ drive = <<>>
    /\ chat = NoChat
    /\ appended = <<>>
    /\ \E model \in GeminiModels :
         probe = [pc |-> "request", model |-> model, attempt |-> 0, requests |-> 1,
                  errors |-> <<>>, waits |-> <<>>, outcome |-> "none"]

\* generateContent resolves: the parsed response is returned.
GeminiResolves ==
    /\ probe.pc = "request"
    /\ probe' = [probe EXCEPT !.pc = "returned", !.outcome = "parsed response"]
    /\ UNCHANGED <<routingVars, sessionVars>>

\* generateContent rejects: a retryable error before the last attempt
\* increments attempt and starts the timer of 1000 * attempt ms, any other
\* error is thrown as 'Gemini API error'.
GeminiRejects ==
    /\ probe.pc = "request"
    /\ \E error \in GeminiErrors :
         probe' = IF IsRetryableError(error) /\ probe.attempt < MAX_RETRIES - 1
                  THEN [probe EXCEPT !.pc = "wait",
                                     !.attempt = probe.attempt + 1,
                                     !.errors = Append(probe.errors, error),
                                     !.waits = Append(probe.waits, probe.attempt + 1)]
                  ELSE [probe EXCEPT !.pc = "thrown",
                                     !.errors = Append(probe.errors, error),
                                     !.outcome = "Gemini API error"]
    /\ UNCHANGED <<routingVars, sessionVars>>

\* The timer fires: the loop continues with the next generateContent request.
GeminiRetries ==
    /\ probe.pc = "wait"
    /\ probe' = [probe EXCEPT !.pc = "request", !.requests = probe.requests + 1]
    /\ UNCHANGED <<routingVars, sessionVars>>

GeminiNext ==
    \/ GeminiResolves
    \/ GeminiRejects
    \/ GeminiRetries

\* Every request to the API settles and every timer fires.
GeminiSpec == GeminiInit /\ [][GeminiNext]_vars /\ WF_vars(GeminiNext)

\* ------------------------------------------------------------ properties

ValidTable(th) == th.simple < th.medium /\ th.medium < th.complex

Tiers == {"gemini-flash", "gemini-pro", "claude-sonnet", "claude-opus"}

\* The interval of scores of a tier, as the dispatch table states it.
InTier(tier, score, th) ==
    CASE tier = "gemini-flash"  -> score <= th.simple
      [] tier = "gemini-pro"    -> th.simple < score /\ score <= th.medium
      [] tier = "claude-sonnet" -> th.medium < score /\ score <= th.complex
      [] tier = "claude-opus"   -> th.complex < score

\* The provider method of a tier.
TierMethod(tier) ==
    CASE tier = "gemini-flash"  -> "gemini.processSimpleTask"
      [] tier = "gemini-pro"    -> "gemini.processTask"
      [] tier = "claude-sonnet" -> "claude.processTask"
      [] tier = "claude-opus"   -> "claude.processComplexTask"

\* A call the router dispatched through routeByComplexity and that waits for
\* its provider.
ByComplexity(c) ==
    /\ call[c].pc = "primary"
    /\ call[c].kind = "chat" \/ ~call[c].analysis.requiresStepwise

\* C1: for every score 0..100 and every table with simple < medium < complex,
\* routeByComplexity selects exactly one tier, the one whose interval holds the
\* score, and invokes that tier's provider method.
C1_PartitionCoverage ==
    \A c \in Calls :
        (ByComplexity(c) /\ ValidTable(routerThresholds)) =>
            /\ call[c].selected.model \in Tiers
            /\ \A t \in Tiers :
                 InTier(t, call[c].analysis.complexity, routerThresholds)
                     <=> t = call[c].selected.model
            /\ call[c].invoked = <<TierMethod(call[c].selected.model)>>

C1_Witness ==
    \E c \in Calls :
        /\ ByComplexity(c)
        /\ ValidTable(routerThresholds)
        /\ routerThresholds # DefaultThresholds
        /\ call[c].analysis.complexity = routerThresholds.complex
        /\ call[c].selected.model = "claude-sonnet"

\* C2: a processTask call whose analysis requires stepwise reasoning invokes
\* deepseek.processReasoningTask as its primary call, label deepseek-r1, for
\* every score and every table.
C2_StepwiseOverride ==
    \A c \in Calls :
        (call[c].kind = "task" /\ call[c].pc = "primary"
            /\ call[c].analysis.requiresStepwise) =>
            /\ call[c].selected.model = "deepseek-r1"
            /\ call[c].invoked = <<"deepseek.processReasoningTask">>

C2_Witness ==
    \E c \in Calls :
        /\ call[c].kind = "task"
        /\ call[c].pc = "primary"
        /\ call[c].analysis.requiresStepwise
        /\ call[c].analysis.complexity = 0
        /\ call[c].selected.model = "deepseek-r1"

PrimaryFailed(c) ==
    call[c].kind = "task" /\ call[c].settled # <<>> /\ call[c].settled[1] = "fail"

PrimarySucceeded(c) ==
    call[c].kind = "task" /\ call[c].settled # <<>> /\ call[c].settled[1] = "ok"

\* C3: a primary provider call that succeeds is followed by no further
\* provider call; one that fails, on any tier, is followed by exactly one call
\* of gemini.processSimpleTask with the task and context of the primary call;
\* a processTask call invokes at most 2 providers.
C3_AtMostOneRetry ==
    \A c \in Calls :
        call[c].kind = "task" =>
            /\ Len(call[c].invoked) <= 2
            /\ Len(call[c].settled) <= Len(call[c].invoked)
            /\ PrimarySucceeded(c) => Len(call[c].invoked) = 1
            /\ PrimaryFailed(c) =>
                 /\ Len(call[c].invoked) = 2
                 /\ call[c].invoked[2] = "gemini.processSimpleTask"
                 /\ Len(call[c].args) = 2
                 /\ call[c].args[2] = call[c].args[1]

C3_Witness ==
    \E c \in Calls :
        /\ PrimaryFailed(c)
        /\ call[c].pc = "fallback"
        /\ call[c].invoked = <<"gemini.processSimpleTask", "gemini.processSimpleTask">>

\* C4: when the primary provider call is rejected and the fallback call
\* succeeds, processTask resolves with the fallback's response and no error
\* reaches the caller.
C4_FallbackResult ==
    \A c \in Calls :
        (call[c].kind = "task" /\ call[c].settled = <<"fail", "ok">>) =>
            /\ call[c].pc = "resolved"
            /\ call[c].result = ProviderResponse("gemini.processSimpleTask", 2)
            /\ call[c].error = NoError

C4_Witness ==
    \E c \in Calls :
        /\ call[c].kind = "task"
        /\ call[c].settled = <<"fail", "ok">>
        /\ call[c].invoked[1] = "claude.processTask"
        /\ call[c].pc = "resolved"

\* C5: when the primary and the fallback provider call both fail, no further
\* provider is invoked and processTask rejects with an error whose message
\* wraps the fallback's error and whose metadata carries the analysis of this
\* call and the fallback error's stack.
C5_FallbackExhausted ==
    \A c \in Calls :
        (call[c].kind = "task" /\ call[c].settled = <<"fail", "fail">>) =>
            /\ call[c].pc = "rejected"
            /\ Len(call[c].invoked) = 2
            /\ call[c].result = NoResult
            /\ call[c].error.message =
                 <<"AI orchestration failed", "gemini.processSimpleTask", 2>>
            /\ call[c].error.metadata.stack = <<"gemini.processSimpleTask", 2>>
            /\ call[c].error.metadata.analysis =
                 [complexity |-> call[c].score,
                  requiresStepwise |-> call[c].stepwise, none |-> FALSE]

C5_Witness ==
    \E c \in Calls :
        /\ call[c].kind = "task"
        /\ call[c].settled = <<"fail", "fail">>
        /\ call[c].pc = "rejected"
        /\ call[c].stepwise
        /\ call[c].error.metadata.analysis.requiresStepwise

\* The step in which call c leaves its analysis and invokes its provider.
Dispatches(c) == call[c].pc = "analyze" /\ call'[c].pc = "primary"

\* C7: the tier chosen for a call depends only on the call's own score,
\* stepwise flag and priority and on the base table, so a priority adjustment
\* made for one processTask call never changes the tier of another call, a
\* chat request included. (Stated for the runs in which the base table is
\* still the constructor's.)
C7_NoCrossCallAdjustment ==
    [][\A c \in Calls :
         (Dispatches(c) /\ thresholds = DefaultThresholds) =>
             call'[c].selected =
                 IF call[c].kind = "task"
                 THEN RouteTask(AnalyzeTask(call[c].score, call[c].stepwise),
                                GetDynamicThresholds(thresholds, call[c].priority))
                 ELSE RouteByComplexity(call[c].score, thresholds)]_vars

\* C8: updateThresholds replaces exactly the supplied fields of the base
\* table, and every call that starts after it has returned, a processTask call
\* or a chat request, is dispatched with the table derived from the updated
\* base table.
C8_UpdateReachesLaterCalls ==
    [][/\ UpdateThresholds =>
            \E partial \in Partials :
                \A f \in Fields :
                    thresholds'[f] = IF f \in DOMAIN partial THEN partial[f]
                                     ELSE thresholds[f]
       /\ \A c \in Calls :
            (/\ Dispatches(c)
             /\ ~call[c].updatedSinceStart
             /\ thresholds # DefaultThresholds) =>
                routerThresholds' = GetDynamicThresholds(thresholds, call[c].priority)]_vars

\* C9: the base table starts as the constructor sets it and only
\* updateThresholds changes it: no step of a processTask call or of a chat
\* request does, whatever the priority.
C9_BaseTableFrame ==
    /\ thresholds = DefaultThresholds
    /\ [][thresholds' # thresholds => UpdateThresholds]_vars

C9_Witness ==
    \E c \in Calls :
        /\ call[c].kind = "task"
        /\ call[c].priority = "high"
        /\ call[c].pc = "resolved"
        /\ routerThresholds.simple = thresholds.simple - 10
        /\ thresholds # DefaultThresholds

\* A processTask call that waits for a provider.
InFlight(c) == call[c].kind = "task" /\ call[c].pc \in {"primary", "fallback"}

\* C10: an updateThresholds call that runs while a processTask call waits for
\* its provider leaves that call's selected tier and invocations as they are;
\* when the call resumes it reports the tier selected at dispatch, falls back
\* to gemini.processSimpleTask, and leaves the base table as the update set it.
C10_InFlightUnaffected ==
    [][\A c \in Calls :
         InFlight(c) =>
            /\ thresholds' # thresholds => call'[c] = call[c]
            /\ call'[c] # call[c] =>
                 /\ thresholds' = thresholds
                 /\ call'[c].pc = "fallback" =>
                      call'[c].invoked =
                          Append(call[c].invoked, "gemini.processSimpleTask")
                 /\ (call[c].pc = "primary" /\ call'[c].pc = "resolved") =>
                      call'[c].modelUsed = call[c].selected.model]_vars

C10_Witness ==
    \E c \in Calls :
        /\ call[c].kind = "task"
        /\ call[c].pc = "resolved"
        /\ call[c].priority = "none"
        /\ call[c].analysis.complexity = 25
        /\ ~call[c].analysis.requiresStepwise
        /\ call[c].modelUsed = "gemini-flash"
        /\ thresholds.simple = 10


\* C11: no update of the base table is lost. Whatever the interleaving of
\* updateThresholds calls with each other and with processTask calls in
\* flight, every field of the base table holds the value of the latest update
\* that named it, and the constructor's value if no update named it: the table
\* is the partial merges applied one after another in the order they ran.
C11_NoLostUpdate ==
    \A f \in Fields :
        thresholds[f] = IF lastSupplied[f] = 0 THEN DefaultThresholds[f]
                        ELSE lastSupplied[f]

\* A processTask call dispatched after simple was set to 10 is still in flight,
\* and since its dispatch simple has been set again, to 20, and medium to 75.
C11_Witness ==
    \E c \in Calls :
        /\ InFlight(c)
        /\ call[c].priority = "none"
        /\ routerThresholds.simple = 10
        /\ routerThresholds.medium = 60
        /\ thresholds.simple = 20
        /\ thresholds.medium = 75
        /\ thresholds.complex = 85

\* C12: every processTask call emits exactly one metrics record, on every
\* path (document creation, primary success, fallback success, fallback
\* failure, analysis failure): none while the call runs, one when its promise
\* settles, before the caller takes the result or the error. The record holds
\* taskId, model, complexity and reasoningType (the duration is the clock's):
\* the label of the provider that answered, null if none did, the complexity
\* stamped on the task, and 'unknown' when there is no analysis.
C12_OneMetricsRecord ==
    \A c \in Calls :
        call[c].kind = "task" =>
            IF call[c].pc \in {"resolved", "rejected"}
            THEN /\ Len(call[c].metrics) = 1
                 /\ DOMAIN call[c].metrics[1] =
                        {"taskId", "model", "complexity", "reasoningType"}
                 /\ call[c].metrics[1].model =
                        (IF call[c].pc = "resolved" /\ call[c].action = "none"
                         THEN call[c].selected.model ELSE "null")
                 /\ call[c].metrics[1].complexity = call[c].taskComplexity
                 /\ call[c].metrics[1].reasoningType = "unknown" <=> call[c].analysis.none
            ELSE call[c].metrics = <<>>

\* The analyzer failed: the call rejects, one record without analysis is logged.
C12_Witness ==
    \E c \in Calls :
        /\ call[c].kind = "task"
        /\ ~call[c].analyzable
        /\ call[c].pc = "rejected"
        /\ call[c].invoked = <<>>
        /\ Len(call[c].metrics) = 1
        /\ call[c].metrics[1].reasoningType = "unknown"

\* The positions of an event in the trace of a call.
Positions(c, event) == {i \in DOMAIN call[c].trace : call[c].trace[i] = event}

\* C13: in a processTask call that is no document creation the steps run in
\* the order analyze, derive, dispatch, log. Every provider invocation comes
\* after the analysis has completed and the thresholds have been derived from
\* it, and the metrics record is logged once, after every provider invocation
\* of the call has settled.
C13_StepOrder ==
    \A c \in Calls :
        (call[c].kind = "task" /\ call[c].action = "none") =>
            /\ \A i \in Positions(c, "invoke") :
                 \E j \in Positions(c, "analyzed"), k \in Positions(c, "derive") :
                     j < k /\ k < i
            /\ \A l \in Positions(c, "log") :
                 /\ \A i \in Positions(c, "invoke") \cup Positions(c, "settle") : i < l
                 /\ Cardinality(Positions(c, "settle")) =
                        Cardinality(Positions(c, "invoke"))
            /\ Cardinality(Positions(c, "log")) <= 1
            /\ call[c].invoked # <<>> =>
                 /\ ~call[c].analysis.none
                 /\ call[c].taskComplexity = call[c].analysis.complexity
            /\ call[c].metrics # <<>> => Len(call[c].settled) = Len(call[c].invoked)

\* Primary and fallback both invoked and settled, then the record logged.
C13_Witness ==
    \E c \in Calls :
        /\ call[c].kind = "task"
        /\ call[c].action = "none"
        /\ call[c].trace = <<"analyze", "analyzed", "stamp", "derive",
                             "invoke", "settle", "invoke", "settle", "log">>

\* C14: a processTask call with task.action = 'create_document' delegates to
\* the document creation and returns its result: the analyzer is not run, no
\* provider is invoked, task.complexity stays as it was, and no step of such a
\* call changes the router's thresholds or the base table, whatever priority
\* its context asks for.
C14_DocumentShortCircuit ==
    /\ [](\A c \in Calls :
            call[c].action = "create_document" =>
                /\ call[c].invoked = <<>>
                /\ call[c].analysis = NoAnalysis
                /\ call[c].taskComplexity = Undefined
                /\ Positions(c, "analyze") \cup Positions(c, "derive")
                       \cup Positions(c, "invoke") = {}
                /\ call[c].pc = "resolved" => call[c].result = DocumentResult)
    /\ [][\A c \in Calls :
            (call'[c].action = "create_document" /\ call'[c] # call[c]) =>
                /\ routerThresholds' = routerThresholds
                /\ thresholds' = thresholds]_vars

\* A document creation with priority high has returned its document and the
\* router still holds the table it held before.
C14_Witness ==
    \E c \in Calls :
        /\ call[c].action = "create_document"
        /\ call[c].priority = "high"
        /\ call[c].pc = "resolved"
        /\ call[c].result = DocumentResult
        /\ routerThresholds = DefaultThresholds
        /\ Len(call[c].metrics) = 1

\* C15: a processTask call whose context carries requiresReasoning: true is
\* routed to the reasoning tier, for any task: its primary provider call is
\* deepseek.processReasoningTask with that task and context, label deepseek-r1.
C15_RequiresReasoningRouted ==
    \A c \in Calls :
        (call[c].kind = "task" /\ call[c].pc = "primary"
            /\ call[c].requiresReasoning) =>
            /\ call[c].invoked = <<"deepseek.processReasoningTask">>
            /\ call[c].selected.model = "deepseek-r1"
            /\ call[c].args = <<CallArgs(call[c])>>

\* The model each tier is labelled with.
TierApiModel(tier) ==
    CASE tier = "gemini-flash"  -> "gemini-1.5-flash"
      [] tier = "gemini-pro"    -> "gemini-1.5-pro"
      [] tier = "claude-sonnet" -> "claude-3-sonnet-20240229"
      [] tier = "claude-opus"   -> "claude-3-opus-20240229"

\* C16: each tier maps to one provider call through a static table: the tier
\* label fixes the provider method and the model that method sends the task
\* to, whatever the complexity score and the task; the claude-sonnet tier
\* always invokes the same Claude model.
C16_StaticTierTable ==
    \A c \in Calls :
        ByComplexity(c) =>
            /\ call[c].invoked = <<TierMethod(call[c].selected.model)>>
            /\ call[c].apiModel = <<TierApiModel(call[c].selected.model)>>

\* C17: the context the caller passed to processTask is read-only during the
\* call: no step of the call, on any tier, adds, removes or changes a field
\* of it.
C17_ContextReadOnly ==
    [][\A c \in Calls :
         (call[c].kind = "task" /\ call'[c].kind = "task") =>
            /\ call'[c].priority = call[c].priority
            /\ call'[c].requiresReasoning = call[c].requiresReasoning
            /\ call'[c].history = call[c].history
            /\ call'[c].chatHistory = call[c].chatHistory]_vars

\* C18: the analysis layer never fails. For every task shape (a string, an
\* object with string content, with an array of content parts, with none of
\* these, or with prompt, text or query fields of any type) analyzeTask
\* resolves with an analysis and no scorer or analyzer error reaches the
\* caller.
C18_AnalysisNeverFails ==
    probe.pc = "settled" =>
        /\ probe.outcome.status = "resolved"
        /\ probe.outcome.error = "none"

\* C19: a missing or corrupt stored session never fails a chat call. When the
\* stored session is missing or its file does not hold a session, the call
\* goes on with a new session whose history is fresh, and no chat call ends
\* with the error of the session layer rethrown to the caller.
C19_SessionLoadTolerant ==
    /\ chat.pc # "failed"
    /\ (chat.pc = "initialized" /\ chat.stored \in {"missing", "garbage", "noHistory"}) =>
           /\ chat.historyDefined
           /\ chat.history = <<InitMessage>>

\* The messages appended to the session id so far, in append order.
AppendedTo(id) ==
    LET OfId(e) == e.id = id
        entries == SelectSeq(appended, OfId)
    IN [i \in DOMAIN entries |-> entries[i].message]

\* The messages of `history` that are among those of `messages`, in the order
\* of `history`.
Restricted(history, messages) ==
    LET Among(m) == \E i \in DOMAIN messages : messages[i] = m
    IN SelectSeq(history, Among)

\* C20: round trip of the session store. When messages have been appended to
\* the session with id S and a later call loads S (new ChatSession(userId, S),
\* then initialize), the session keeps the id S and its history contains the
\* messages appended so far, in append order.
C20_SessionRoundTrip ==
    (/\ chat.pc = "initialized"
     /\ chat.supplied # NullId
     /\ AppendedTo(chat.supplied) # <<>>) =>
        /\ chat.sessionId = chat.supplied
        /\ chat.historyDefined
        /\ Restricted(chat.history, AppendedTo(chat.supplied)) = AppendedTo(chat.supplied)

\* The weighted sum of the sub-scores of a result, in hundredths.
WeightedHundredths(components) ==
    30 * components.length + 25 * components.code + 20 * components.terms
    + 15 * components.structure + 10 * components.context

\* C21: every score scoreTask returns is an integer within 0..100 and is the
\* weighted sum length*0.30 + code*0.25 + terms*0.20 + structure*0.15 +
\* context*0.10 of the five sub-scores of its breakdown, rounded to the
\* nearest integer; the sum never leaves 0..100, so the clamp changes nothing.
C21_WeightedScore ==
    probe.pc = "scored" =>
        LET r == probe.result
            w == WeightedHundredths(r.components)
        IN /\ r.score \in 0..100
           /\ 100 * r.score - 50 <= w
           /\ w < 100 * r.score + 50
           /\ r.components.length = ScoreLengthComplexity(probe.text.length)
           /\ r.components.context = ScoreContextDependency(probe.context)

\* The empty text without context: 3 + 23.75 + 2 + 3 + 2 = 33.75, scored 34.
C21_Witness ==
    /\ probe.pc = "scored"
    /\ probe.text.length = 0
    /\ probe.result.components = [length |-> 10, code |-> 95, terms |-> 10,
                                  structure |-> 20, context |-> 20]
    /\ probe.result.score = 34

\* C22: the four text sub-scores are non-decreasing step functions: a text
\* with at least the length, the code ratio, the term count or the element
\* count of the scored text has at least its length, code, terms or structure
\* sub-score, the empty text included (its code ratio taken as 0: it holds no
\* code).
C22_MonotoneLadders ==
    probe.pc = "scored" =>
        \A other \in Texts :
            /\ other.length >= probe.text.length =>
                 ScoreLengthComplexity(other.length) >= probe.result.components.length
            /\ other.codeLength * probe.text.length >= probe.text.codeLength * other.length =>
                 ScoreCodeContent(other.codeLength, other.length)
                     >= probe.result.components.code
            /\ other.termCount >= probe.text.termCount =>
                 ScoreTechnicalTerms(other.termCount) >= probe.result.components.terms
            /\ other.elementThirds >= probe.text.elementThirds =>
                 ScoreStructuralComplexity(other.elementThirds)
                     >= probe.result.components.structure

\* The three shapes of a task: a plain string, an object with a string
\* content, an object with an array of {type, text} parts (and no prompt, text
\* or query field).
ThreeShapes(task) ==
    \/ task.shape = "string"
    \/ /\ task.shape = "object"
       /\ task.content \in {"string", "array"}
       /\ task.prompt = "absent" /\ task.text = "absent" /\ task.query = "absent"

\* C23: for each of the three task shapes the complexity scorer, the
\* reasoning analyzer and the prompt builder of the provider obtain the same
\* text from the task.
C23_SameTextExtracted ==
    (probe.pc = "extracted" /\ ThreeShapes(probe.task)) =>
        /\ ~probe.scorer.throws
        /\ ~probe.prompt.throws
        /\ probe.scorer.text = probe.analyzer.text
        /\ probe.scorer.text = probe.prompt.text

\* The indicator phrases the lower-cased text contains.
IndicatorsIn(text) ==
    {i \in StepwiseIndicators : \E phrase \in text : ToLowerCase(phrase) = i}

\* The mathematical and logical keywords the lower-cased text contains.
KeywordsIn(text) ==
    {k \in MathematicalKeywords \cup LogicalKeywords :
        \E phrase \in text : \/ ToLowerCase(phrase) = k
                             \/ ToLowerCase(phrase) = "invalid" /\ k = "valid"}

C25_ComplexityStamped ==
    \A c \in Calls :
        (call[c].kind = "task" /\ call[c].action = "none" /\ call[c].pc # "analyze") =>
            /\ call[c].taskComplexity = call[c].score
            /\ \E i \in Positions(c, "stamp") : \A j \in Positions(c, "invoke") : i < j
            /\ call[c].apiModel # <<>>
            /\ call[c].apiModel[1] = ProviderModel(call[c].invoked[1], call[c].score)
            /\ call[c].metrics # <<>> => call[c].metrics[1].complexity = call[c].score

\* C26: chat-mode dispatch applies the routing policy of processTask. A chat
\* request whose router table is the base table selects the provider
\* processTask selects for the same analysis and base table without priority,
\* the stepwise override included, and a chat request whose provider call
\* failed has made exactly one more call, to the cheapest tier.
C26_ChatSamePolicy ==
    \A c \in Calls :
        call[c].kind = "chat" =>
            /\ (call[c].pc = "primary" /\ routerThresholds = thresholds) =>
                  call[c].selected =
                      RouteTask(call[c].analysis, GetDynamicThresholds(thresholds, "none"))
            /\ call[c].pc = "rejected" =>
                  /\ Len(call[c].invoked) = 2
                  /\ call[c].invoked[2] = FlashMethod

\* Some score selects the tier under the table.
Selectable(tier, th) == \E score \in AllScores : InTier(tier, score, th)

\* C27: for every base table with simple < medium < complex and every
\* priority, the table processTask derives and dispatches with is ordered too,
\* simple < medium < complex, and every tier some score selects under the base
\* table is still selected by some score under the derived table.
C27_DerivedTableOrdered ==
    \A c \in Calls :
        (call[c].kind = "task" /\ call[c].pc = "primary" /\ ValidTable(thresholds)) =>
            /\ ValidTable(routerThresholds)
            /\ \A tier \in Tiers :
                 Selectable(tier, thresholds) => Selectable(tier, routerThresholds)

\* The messages of the history that the current call appended.
AppendedByCall ==
    LET OfCall(m) == m.content[2] = chat.n
    IN SelectSeq(chat.history, OfCall)

\* The roles of a sequence of messages.
Roles(messages) == [i \in DOMAIN messages |-> messages[i].role]

C29_WasTaskIffTypeTask ==
    chat.pc = "returned" => (chat.result.wasTask <=> chat.result.type = "task")

\* The call of callGeminiAPI has settled.
GeminiSettled == probe.pc \in {"returned", "thrown"}

====
